---- MODULE Spec2Model ----
(***************************************************************************)
(* Model of secure-api-client: ApiClient.request / execute (client.ts),    *)
(* AuthManager and MemoryTokenStorage (auth.ts), LruCacheAdapter and       *)
(* InFlightDeduper (cache.ts), toApiError / makeErrorShape (errors.ts),    *)
(* streamResponse (stream.ts).                                             *)
(*                                                                         *)
(* One client instance.  Every request() call is a process; the call that  *)
(* starts an execution owns it, so an execution is named by its call id.   *)
(* Every action is one run of code between two real suspension points      *)
(* (token refresh callback, encryption + transport call, body stream).     *)
(***************************************************************************)
EXTENDS Integers, Sequences, FiniteSets, TLC

\* ---------------------------------------------------------------- bounds
MaxCalls == 2
MaxTicks == 1
\* request() calls in the single-call specifications
AuthCalls == 1
WireCalls == 1
\* chunks one response body delivers
MaxChunks == 2

\* ------------------------------------------------------------- constants
\* options.cacheTtlMs ?? 10_000
CacheTtlMs == 10000
\* the modelled clock advances by one cache TTL at a time
TickMs == CacheTtlMs

Null == "null"
Absent == "absent"

\* ------------------------------------------------------------ input sets
Urls == {"http://localhost/users/me"}
GatewayUrl == "http://localhost/gateway"
Methods == {"GET", "POST"}
\* HttpMethod
AllMethods == {"GET", "POST", "PUT", "PATCH", "DELETE", "FORMDATA"}
\* caller-chosen value of the x-request-id header in req.headers
Tags == {"r-1"}
AllTags == {"r-1", "r-2"}

\* req.body values.  An object is the sequence of its own properties in
\* insertion order, <<name, value>> with value Absent for undefined; a
\* FormData is the sequence of its entries, which are not properties.
Undefined == [kind |-> "undefined", props |-> <<>>]
NullBody == [kind |-> "null", props |-> <<>>]
Obj(props) == [kind |-> "object", props |-> props]
Form(entries) == [kind |-> "formdata", props |-> entries]

\* the body the modelled callers send with each method
DefaultBody(method) ==
  IF method \in {"GET", "DELETE"} THEN Undefined
  ELSE IF method = "FORMDATA" THEN Form(<< <<"file", "f1">> >>)
  ELSE Obj(<< <<"name", "x">> >>)

\* ApiRequest: url, method, stream flag, headers (tag), body, cacheKey
ReqsOf(methods, tags) ==
  {r \in [url : Urls, method : methods, stream : BOOLEAN, tag : tags,
           body : {DefaultBody(m) : m \in methods}, cacheKey : {Absent}] :
     r.body = DefaultBody(r.method)}
Reqs == ReqsOf(Methods, Tags)

\* access tokens a caller or a refresh callback can supply, with the exp
\* claim (seconds) decodeJwt finds in them; 0 = no exp claim / not a JWT
AccessTokens == {"jwt-exp10"}
RefreshTokens == {"r1"}

JwtExp(tok) == IF tok = "jwt-exp10" THEN 10 ELSE 0

\* pairs given to ApiClient.setTokens (refreshToken optional)
SetTokenInputs == [accessToken : AccessTokens, refreshToken : RefreshTokens \cup {Absent}]
\* pairs a refresh callback can resolve to (TokenPair: accessToken may be
\* null, refreshToken may be missing, null or a string)
RefreshOutputs == [accessToken : {"opaque", Null}, refreshToken : {"r2", Absent}]

\* values the transport primitive / a collaborator can throw
ThrownErrors ==
  { [isApiError |-> FALSE, isObject |-> TRUE, message |-> "Failed to fetch", code |-> Absent],
    [isApiError |-> FALSE, isObject |-> TRUE, message |-> "The operation was aborted", code |-> "20"],
    [isApiError |-> FALSE, isObject |-> FALSE, message |-> "boom", code |-> Absent],
    [isApiError |-> TRUE, isObject |-> TRUE, message |-> "quota exceeded", code |-> "E_QUOTA"] }
NoThrown == [isApiError |-> FALSE, isObject |-> FALSE, message |-> Absent, code |-> Absent]

\* decoded bodies: type is the JS typeof, code/message the own properties
NoData == [type |-> "undefined", code |-> Absent, message |-> Absent]
TextData == [type |-> "string", code |-> Absent, message |-> Absent]
ObjPlain == [type |-> "object", code |-> Absent, message |-> Absent]
ObjCodeMsg == [type |-> "object", code |-> "NOT_FOUND", message |-> "no such user"]
ObjCodeOnly == [type |-> "object", code |-> "NOT_FOUND", message |-> Absent]

\* responses of the transport primitive: wire body = (is it ciphertext under
\* the client's key, is the plaintext well-formed JSON, what it decodes to)
Responses ==
  { [status |-> b[1], contentType |-> b[2], cipher |-> b[3], json |-> b[4], data |-> b[5]] :
      b \in { <<200, "application/json", FALSE, TRUE, ObjPlain>>,
              <<200, "application/json", FALSE, FALSE, NoData>>,
              <<200, "application/octet-stream", TRUE, TRUE, ObjPlain>>,
              <<404, "application/json", FALSE, TRUE, ObjCodeMsg>>,
              <<404, "application/json", FALSE, TRUE, ObjCodeOnly>>,
              <<404, "application/json", FALSE, TRUE, ObjPlain>>,
              <<404, "text/plain", FALSE, FALSE, TextData>> } }
NoResponse == [status |-> 0, contentType |-> Null, cipher |-> FALSE, json |-> FALSE, data |-> NoData]

\* ------------------------------------------------------------- headers
EmptyHeaders == [n \in {} |-> ""]

\* {...a, ...b}: b wins on conflict
Spread(a, b) == b @@ a

defaultHeadersFor(method, encryption) ==
  Spread(IF method \notin {"GET", "DELETE", "FORMDATA"}
           THEN ("content-type" :> (IF encryption THEN "application/octet-stream"
                                                  ELSE "application/json"))
           ELSE EmptyHeaders,
         "accept" :> "application/json, application/octet-stream;q=0.8, */*;q=0.5")

\* options.defaultHeaders and req.headers of the modelled callers
ClientDefaultHeaders == "x-client" :> "my-app"
ReqHeaders(req) == "x-request-id" :> req.tag

\* ------------------------------------------------------------- results
NoError == [code |-> Absent, message |-> Absent, details |-> NoData]
NoResult == [ok |-> FALSE, status |-> -1, headers |-> Null, data |-> NoData, error |-> NoError]

Success(status, headers, data) ==
  [ok |-> TRUE, status |-> status, headers |-> headers, data |-> data, error |-> NoError]
Failure(status, headers, error) ==
  [ok |-> FALSE, status |-> status, headers |-> headers, data |-> NoData, error |-> error]

toApiError_NoFallback(e, fallbackCode) ==
  IF e.isApiError THEN [message |-> e.message, code |-> e.code, details |-> NoData]
  ELSE IF e.isObject
    THEN [message |-> e.message,
          code |-> (IF e.code # Absent THEN e.code ELSE "ERR_UNKNOWN"),
          details |-> NoData]
    ELSE [message |-> e.message, code |-> "ERR_UNKNOWN", details |-> NoData]

\* errors.ts: an ApiError keeps its code; an object with a message keeps its
\* own code when it has one; anything else is stringified under the fallback
toApiError(e, fallbackCode) ==
  IF e.isApiError THEN [message |-> e.message, code |-> e.code, details |-> NoData]
  ELSE IF e.isObject
    THEN [message |-> e.message,
          code |-> (IF e.code # Absent THEN e.code ELSE fallbackCode),
          details |-> NoData]
    ELSE [message |-> e.message, code |-> fallbackCode, details |-> NoData]

makeErrorShape(err) == [code |-> err.code, message |-> err.message, details |-> err.details]

\* ---------------------------------------------------------- token store
EmptyTokens == [accessToken |-> Null, refreshToken |-> Null, accessTokenExpiresAt |-> 0]

\* AuthManager.enrichMetadata: exp (seconds) of the decoded token, in ms;
\* 0 stands for undefined (no token, no exp claim, or decodeJwt threw)
enrichMetadata(tokens) ==
  IF tokens.accessToken # Null THEN JwtExp(tokens.accessToken) * 1000 ELSE 0

\* MemoryTokenStorage.setTokens: { ...this.tokens, ...tokens }; a field the
\* argument does not carry keeps its stored value
MemorySetTokens(stored, tokens, expiresAt) ==
  [accessToken |-> tokens.accessToken,
   refreshToken |-> IF tokens.refreshToken = Absent THEN stored.refreshToken
                    ELSE tokens.refreshToken,
   accessTokenExpiresAt |-> expiresAt]

\* AuthManager.setTokens
AuthSetTokens(stored, tokens) == MemorySetTokens(stored, tokens, enrichMetadata(tokens))

defaultIsTokenExpired(expiresAt, t) ==
  IF expiresAt = 0 THEN FALSE ELSE t >= expiresAt

RefreshPersist_Skipped(stored, updated) == stored

\* getValidAccessToken, line 54: await this.setTokens(updated)
RefreshPersist(stored, updated) == AuthSetTokens(stored, updated)

\* ------------------------------------------------------ request building
\* JSON.stringify of the members of an object: a property whose value is
\* undefined is left out
RECURSIVE JsonMembers(_)
JsonMembers(props) ==
  IF props = <<>> THEN <<>>
  ELSE (IF props[1][2] = Absent THEN <<>>
        ELSE << "\"" \o props[1][1] \o "\":\"" \o props[1][2] \o "\"" >>)
       \o JsonMembers(Tail(props))

RECURSIVE JoinComma(_)
JoinComma(strs) ==
  IF strs = <<>> THEN ""
  ELSE IF Len(strs) = 1 THEN strs[1]
  ELSE strs[1] \o "," \o JoinComma(Tail(strs))

\* JSON.stringify(body ?? null): undefined and null give "null"; an object
\* gives its defined own properties; a FormData has no own enumerable
\* property and gives "{}" whatever its entries
JsonStringify(body) ==
  IF body.kind \in {"undefined", "null"} THEN "null"
  ELSE IF body.kind = "formdata" THEN "{}"
  ELSE "{" \o JoinComma(JsonMembers(body.props)) \o "}"

\* request(), line 200: req.method ?? "GET"
MethodOf(req) == IF req.method = Absent THEN "GET" ELSE req.method

\* the serialized body of req
ReqBody(req) == JsonStringify(req.body)

\* request(), line 202:
\* req.cacheKey ?? `${method}:${url}:${JSON.stringify(req.body ?? null)}`
CacheKeyOf(req) ==
  IF req.cacheKey # Absent THEN req.cacheKey
  ELSE MethodOf(req) \o ":" \o req.url \o ":" \o JsonStringify(req.body)

\* the keys of the requests the modelled callers make
Keys == {CacheKeyOf(r) : r \in ReqsOf(AllMethods, AllTags)}

\* A transport body.  payload is the caller's body, payloadLayers the number
\* of encryption layers around it; env is the gateway envelope's routing
\* data (url, method, headers) and envSealed whether the envelope itself went
\* through encrypt() before it was put in the body.
NoEnv == [present |-> FALSE, url |-> Null, method |-> Null, headers |-> EmptyHeaders]
NoBody == [kind |-> "none", payload |-> Null, payloadLayers |-> 0, env |-> NoEnv, envSealed |-> FALSE]

\* methodToInit
methodToInit(method, body, encryption) ==
  IF method \in {"GET", "DELETE"} THEN NoBody
  ELSE IF method = "FORMDATA" THEN [NoBody EXCEPT !.kind = "formdata", !.payload = body]
  ELSE IF encryption THEN [NoBody EXCEPT !.kind = "blob", !.payload = body]
  ELSE [NoBody EXCEPT !.kind = "string", !.payload = body]

\* execute(), lines 246-267: the body after the encryption step
EncryptStep(initBody, encryption, gatewayPath, url, method, headers) ==
  IF encryption /\ initBody.kind = "blob"
    THEN IF gatewayPath
           THEN [initBody EXCEPT !.payloadLayers = 2,
                                 !.env = [present |-> TRUE, url |-> url,
                                          method |-> method, headers |-> headers],
                                 !.envSealed = TRUE]
           ELSE [initBody EXCEPT !.payloadLayers = 1]
    ELSE initBody

\* does execute() call encryption.encrypt for this request
NeedsEncrypt(method, body, encryption) ==
  encryption /\ methodToInit(method, body, encryption).kind = "blob"

FetchTarget_TrueUrl(gatewayPath, url) == url

\* execute(), line 270: first argument of the transport call
FetchTarget(gatewayPath, url) == IF gatewayPath THEN GatewayUrl ELSE url

\* execute(), lines 239-244 and 271: the init passed to the transport call;
\* signal names the request() call whose req.signal it is
FetchInit(method, headers, signal, body) ==
  [method |-> IF method = "FORMDATA" THEN "POST" ELSE method,
   headers |-> headers,
   signal |-> signal,
   body |-> body]

\* execute(), line 235
WithAuthorization(headers, token) ==
  IF token # Null THEN Spread(headers, "authorization" :> <<"Bearer", token>>)
  ELSE headers

\* execute(), lines 228-232
BaseHeaders(req, encryption) ==
  Spread(Spread(defaultHeadersFor(MethodOf(req), encryption), ClientDefaultHeaders),
         ReqHeaders(req))

\* ----------------------------------------------------- response decoding
\* execute(), lines 317-320: the error of a failure status
HttpErrorShape(data) ==
  IF data.type = "object" /\ data.code # Absent
    THEN [code |-> data.code, message |-> data.message, details |-> NoData]
    ELSE [code |-> "ERR_HTTP", message |-> "Request failed", details |-> data]

\* the value a failed body read throws: a SyntaxError, it carries no code
DecodeError == [isApiError |-> FALSE, isObject |-> TRUE, message |-> "Unexpected token", code |-> Absent]

\* execute(), lines 303-342
DecodeResponse(resp, encryption) ==
  LET octet == resp.contentType = "application/octet-stream" /\ encryption
      isJson == resp.contentType = "application/json"
      throws == IF octet THEN ~(resp.cipher /\ resp.json)
                ELSE IF isJson THEN ~(~resp.cipher /\ resp.json)
                ELSE FALSE
      data == IF octet \/ isJson THEN resp.data ELSE TextData
      respOk == resp.status >= 200 /\ resp.status <= 299
  IN IF throws
       THEN Failure(resp.status, resp.contentType, makeErrorShape(toApiError(DecodeError, "ERR_DECODE")))
     ELSE IF ~respOk
       THEN Failure(resp.status, resp.contentType, HttpErrorShape(data))
     ELSE Success(resp.status, resp.contentType, data)

\* ------------------------------------------------------------------ cache
NoEntry == [present |-> FALSE, value |-> NoResult, expiresAt |-> 0]

EntryLive_Late(entry, t) == ~(entry.expiresAt # 0 /\ t > entry.expiresAt)

\* LruCacheAdapter.get, line 13: the entry is still served at time t
EntryLive(entry, t) == ~(entry.expiresAt # 0 /\ t >= entry.expiresAt)

CacheHit_Never(entry, t) == FALSE

\* LruCacheAdapter.get: does the lookup return a value
CacheHit(entry, t) == entry.present /\ EntryLive(entry, t)

\* LruCacheAdapter.get: the entry left behind by the lookup
EntryAfterGet(entry, t) == IF entry.present /\ ~EntryLive(entry, t) THEN NoEntry ELSE entry

CacheSet_ZeroSkips(value, ttlMs, t) ==
  IF ttlMs = 0 THEN NoEntry ELSE [present |-> TRUE, value |-> value, expiresAt |-> t + ttlMs]

\* LruCacheAdapter.set: expiresAt = ttlMs ? Date.now() + ttlMs : undefined
CacheSet(value, ttlMs, t) ==
  [present |-> TRUE, value |-> value, expiresAt |-> IF ttlMs # 0 THEN t + ttlMs ELSE 0]

ShouldCache_Always(cacheOn, res) == cacheOn

\* request(), line 215: is the settled result written to the cache
ShouldCache(cacheOn, res) == cacheOn /\ res.ok

InFlightGet_Miss(map, key) == 0

\* InFlightDeduper.get: the execution registered under key (0 = undefined)
InFlightGet(map, key) == map[key]

\* ------------------------------------------------------------------ state
CallIds == 1..MaxCalls

VARIABLES
  cfg,        \* ClientOptions: encryption, gatewayPath, cache, dedup, onRefresh
  ticks,      \* Date.now() = ticks * TickMs
  storage,    \* MemoryTokenStorage.tokens
  cache,      \* LruCacheAdapter: key -> entry
  inflight,   \* InFlightDeduper.map: key -> execution, 0 = no entry
  calls,      \* request() calls: what the caller asked and what it got
  pc,         \* where each execution (execute() + .then + finally) stands
  auth,       \* per execution: what getValidAccessToken read, did and returned
  response,   \* per execution: the Response the transport call resolved to
  thrown,     \* per execution: the value the transport call rejected with
  outcome,    \* per execution: how the promise `exec` settled
  fetches,    \* per execution: the transport calls made, in order
  refreshes,  \* per execution: the onRefresh calls made, in order
  relay,      \* per execution: streamResponse's handler calls, reads and reader
  aborted,    \* per request() call: has its req.signal been aborted
  twin        \* the client made by withEncryption, and which client is in view

vars == <<cfg, ticks, storage, cache, inflight, calls, pc, auth, response, thrown, outcome,
          fetches, refreshes, relay, aborted, twin>>

now == ticks * TickMs

Configs == [encryption : BOOLEAN, gatewayPath : BOOLEAN, cache : BOOLEAN,
            dedup : BOOLEAN, onRefresh : BOOLEAN]

NoReq == [url |-> Null, method |-> Null, stream |-> FALSE, tag |-> Null, body |-> Undefined,
          cacheKey |-> Absent]
NoKey == Null
NoPair == [accessToken |-> Null, refreshToken |-> Null]
IdleCall == [state |-> "idle", req |-> NoReq, key |-> NoKey, via |-> "none", exec |-> 0,
             result |-> NoResult, fresh |-> FALSE, freshValue |-> NoResult, stale |-> FALSE,
             pendingAtIssue |-> 0, entryAtIssue |-> 0, doneAtIssue |-> {}, trace |-> <<>>,
             storeAtHit |-> NoPair, hitAt |-> 0, doneAt |-> 0]
NoAuth == [decision |-> "none", read |-> NoPair, readAt |-> 0, updated |-> NoPair,
           token |-> Null]
Pending == [state |-> "pending", value |-> NoResult]
\* streamResponse not called: no handler call, no read, no reader
NoRelay == [log |-> <<>>, read |-> <<>>, reader |-> "none", releases |-> 0]

\* the fields of a freshly constructed client, and no call made yet
InitFields(c, keys) ==
  /\ cfg = c
  /\ ticks = 0
  /\ storage = EmptyTokens
  /\ cache = [k \in keys |-> NoEntry]
  /\ inflight = [k \in keys |-> 0]
  /\ calls = [i \in CallIds |-> IdleCall]
  /\ pc = [i \in CallIds |-> "none"]
  /\ auth = [i \in CallIds |-> NoAuth]
  /\ response = [i \in CallIds |-> NoResponse]
  /\ thrown = [i \in CallIds |-> NoThrown]
  /\ outcome = [i \in CallIds |-> Pending]
  /\ fetches = [i \in CallIds |-> <<>>]
  /\ refreshes = [i \in CallIds |-> <<>>]
  /\ relay = [i \in CallIds |-> NoRelay]
  /\ aborted = [i \in CallIds |-> FALSE]

\* ClientOptions beyond cfg: was auth.storage supplied, was a cache adapter
\* supplied, and cacheTtlMs (?? 10_000 leaves a given 0 as it is)
Exts == [storage : BOOLEAN, cache : BOOLEAN, cacheTtlMs : {0, CacheTtlMs}]
NoExt == [storage |-> FALSE, cache |-> FALSE, cacheTtlMs |-> CacheTtlMs]

\* cfg, storage, cache and inflight are the fields of the client in view;
\* parked holds those of the other client, once withEncryption has made it;
\* owner names the client of each request() call issued before the view last
\* changed
NoParked == [cfg |-> Null, storage |-> EmptyTokens, cache |-> <<>>, inflight |-> <<>>]
NoTwin(ext) == [made |-> FALSE, active |-> "original", ext |-> ext, parked |-> NoParked,
                owner |-> [i \in CallIds |-> "none"]]

\* the state a freshly constructed client with options c and ext is in; keys
\* are the cache keys its callers will use
InitClient(c, keys, ext) ==
  /\ twin = NoTwin(ext)
  /\ InitFields(c, keys)

InitKeyed(c, keys) == InitClient(c, keys, NoExt)

InitWith(c) == InitKeyed(c, Keys)

AuthDecision_Mutex(tokens, t, hasOnRefresh) ==
  IF tokens.accessToken = Null THEN "none"
  ELSE IF ~defaultIsTokenExpired(enrichMetadata(tokens), t) THEN "current"
  ELSE IF hasOnRefresh /\ tokens.refreshToken \notin {Null, Absent}
          /\ \A e \in CallIds : pc[e] # "refresh" THEN "refresh"
  ELSE "none"

AuthDecision_Stale(tokens, t, hasOnRefresh) ==
  IF tokens.accessToken = Null THEN "none"
  ELSE IF ~defaultIsTokenExpired(enrichMetadata(tokens), t) THEN "current"
  ELSE IF hasOnRefresh /\ tokens.refreshToken \notin {Null, Absent} THEN "refresh"
  ELSE "current"

\* the branch getValidAccessToken takes on the pair it read
AuthDecision(tokens, t, hasOnRefresh) ==
  IF tokens.accessToken = Null THEN "none"
  ELSE IF ~defaultIsTokenExpired(enrichMetadata(tokens), t) THEN "current"
  ELSE IF hasOnRefresh /\ tokens.refreshToken \notin {Null, Absent} THEN "refresh"
  ELSE "none"

\* this.options.cacheTtlMs
cacheTtlMs == twin.ext.cacheTtlMs

\* no request() call has been made on the client
NoCallYet == \A c \in CallIds : calls[c].state = "idle"

\* the next request() call takes the first unused id
NextCall == Cardinality({c \in CallIds : calls[c].state # "idle"}) + 1

Delivered_OwnerOnly(e, o) ==
  [c \in CallIds |->
     IF c = e /\ calls[c].state = "waiting"
       THEN [calls[c] EXCEPT !.state = IF o.state = "fulfilled" THEN "resolved" ELSE "rejected",
                             !.result = o.value, !.doneAt = now]
       ELSE calls[c]]

\* the promises request() returned to the callers of execution e settle with
\* its outcome o (every caller holds the one promise `exec`)
Delivered(e, o) ==
  [c \in CallIds |->
     IF calls[c].state = "waiting" /\ calls[c].exec = e
       THEN [calls[c] EXCEPT !.state = IF o.state = "fulfilled" THEN "resolved" ELSE "rejected",
                             !.result = o.value, !.doneAt = now]
       ELSE calls[c]]

\* `exec` settles with outcome o.  With dedup its first reaction is the
\* finally callback of InFlightDeduper.set, which runs before any caller
\* sees the outcome; without dedup the caller is the only reaction.
Finish(e, o) ==
  /\ outcome' = [outcome EXCEPT ![e] = o]
  /\ pc' = [pc EXCEPT ![e] = IF cfg.dedup THEN "settled" ELSE "done"]
  /\ calls' = IF cfg.dedup THEN calls ELSE Delivered(e, o)

\* execute() returned res: the .then callback of request() (lines 214-218)
\* caches a success, then `exec` is fulfilled with res
Settle(e, res) ==
  /\ cache' = IF ShouldCache(cfg.cache, res)
                THEN [cache EXCEPT ![calls[e].key] = CacheSet(res, cacheTtlMs, now)]
                ELSE cache
  /\ Finish(e, [state |-> "fulfilled", value |-> res])

\* execute() threw: .then is skipped and `exec` is rejected
Reject(e) ==
  /\ Finish(e, [state |-> "rejected", value |-> NoResult])
  /\ UNCHANGED cache

\* ApiClient.request up to its first real suspension: cache lookup, in-flight
\* lookup, then execute() up to the end of getValidAccessToken's checks
Request(req) ==
  LET c == NextCall
      key == CacheKeyOf(req)
      hit == cfg.cache /\ CacheHit(cache[key], now)
      joined == cfg.dedup /\ InFlightGet(inflight, key) # 0
      decision == AuthDecision(storage, now, cfg.onRefresh)
      base == [IdleCall EXCEPT !.req = req, !.key = key,
                 !.fresh = cfg.cache /\ cache[key].present
                           /\ (cache[key].expiresAt = 0 \/ now < cache[key].expiresAt),
                 !.freshValue = IF cfg.cache /\ cache[key].present
                                   /\ (cache[key].expiresAt = 0 \/ now < cache[key].expiresAt)
                                 THEN cache[key].value ELSE NoResult,
                 !.stale = cfg.cache /\ cache[key].present /\ cache[key].expiresAt # 0
                           /\ now >= cache[key].expiresAt,
                 !.doneAtIssue = {e \in CallIds : pc[e] = "done"},
                 !.entryAtIssue = inflight[key],
                 !.pendingAtIssue = IF inflight[key] = 0 THEN 0
                                     ELSE IF outcome[inflight[key]].state = "pending"
                                       THEN inflight[key] ELSE 0]
  IN /\ c <= MaxCalls
     /\ cache' = IF cfg.cache THEN [cache EXCEPT ![key] = EntryAfterGet(@, now)] ELSE cache
     /\ IF hit
          THEN /\ calls' = [calls EXCEPT ![c] = [base EXCEPT !.state = "resolved", !.via = "cache",
                                !.result = cache[key].value,
                                !.trace = <<"cache">>,
                                !.storeAtHit = [accessToken |-> storage.accessToken,
                                                refreshToken |-> storage.refreshToken],
                                !.hitAt = now]]
               /\ UNCHANGED <<inflight, pc, auth, refreshes>>
        ELSE IF joined
          THEN /\ calls' = [calls EXCEPT ![c] = [base EXCEPT !.state = "waiting", !.via = "join",
                                !.exec = InFlightGet(inflight, key),
                                !.trace = (IF cfg.cache THEN <<"cache">> ELSE <<>>) \o <<"dedup">>]]
               /\ UNCHANGED <<inflight, pc, auth, refreshes>>
        ELSE /\ calls' = [calls EXCEPT ![c] = [base EXCEPT !.state = "waiting", !.via = "exec",
                                !.exec = c,
                                !.trace = (IF cfg.cache THEN <<"cache">> ELSE <<>>)
                                          \o (IF cfg.dedup THEN <<"dedup">> ELSE <<>>)
                                          \o <<"auth">>]]
             /\ inflight' = IF cfg.dedup THEN [inflight EXCEPT ![key] = c] ELSE inflight
             /\ auth' = [auth EXCEPT ![c] = [NoAuth EXCEPT !.decision = decision,
                            !.read = [accessToken |-> storage.accessToken,
                                      refreshToken |-> storage.refreshToken],
                            !.readAt = now,
                            !.token = IF decision = "current" THEN storage.accessToken
                                      ELSE Null]]
             /\ refreshes' = IF decision = "refresh"
                               THEN [refreshes EXCEPT ![c] = Append(@,
                                       [accessToken |-> storage.accessToken,
                                        refreshToken |-> storage.refreshToken])]
                               ELSE refreshes
             /\ pc' = [pc EXCEPT ![c] = IF decision = "refresh" THEN "refresh" ELSE "send"]
     /\ UNCHANGED <<twin, cfg, ticks, storage, response, thrown, outcome, fetches, relay, aborted>>

\* getValidAccessToken, lines 50-55: onRefresh resolved to `updated`; the pair
\* is persisted through AuthManager.setTokens and its access token returned
RefreshResolve(e, updated) ==
  /\ pc[e] = "refresh"
  /\ storage' = RefreshPersist(storage, updated)
  /\ auth' = [auth EXCEPT ![e] = [@ EXCEPT !.updated = updated, !.token = updated.accessToken]]
  /\ pc' = [pc EXCEPT ![e] = "send"]
  /\ UNCHANGED <<twin, cfg, ticks, cache, inflight, calls, response, thrown, outcome, fetches, refreshes,
                 relay, aborted>>

\* onRefresh rejected: the await at line 234 is outside every try block, so
\* execute() rejects
RefreshReject(e) ==
  /\ pc[e] = "refresh"
  /\ Reject(e)
  /\ UNCHANGED <<twin, cfg, ticks, storage, inflight, auth, response, thrown, fetches, refreshes,
                 relay, aborted>>

\* the value a failing encrypt() throws (no code of its own)
EncryptError == [isApiError |-> FALSE, isObject |-> TRUE, message |-> "encrypt failed", code |-> Absent]

\* execute(), lines 273-280
NetworkFailure(err) == Failure(0, Null, makeErrorShape(toApiError(err, "ERR_NETWORK")))

\* the headers execute() has after line 235
SentHeaders(e) == WithAuthorization(BaseHeaders(calls[e].req, cfg.encryption), auth[e].token)

\* the transport call execute() makes for execution e (line 269)
FetchCall(e) ==
  LET req == calls[e].req
      headers == SentHeaders(e)
      method == MethodOf(req)
      body == EncryptStep(methodToInit(method, ReqBody(req), cfg.encryption),
                          cfg.encryption, cfg.gatewayPath, req.url, method, headers)
  IN [url |-> FetchTarget(cfg.gatewayPath, req.url), init |-> FetchInit(method, headers, e, body)]

\* execute(), lines 235-272: authorization header, init, encryption, and the
\* transport call is issued; a throwing encrypt() ends in the catch of line 273
Send(e) ==
  /\ pc[e] = "send"
  /\ \E encryptOk \in BOOLEAN :
       /\ (~encryptOk) => NeedsEncrypt(MethodOf(calls[e].req), ReqBody(calls[e].req), cfg.encryption)
       /\ IF encryptOk
            THEN /\ fetches' = [fetches EXCEPT ![e] = Append(@, FetchCall(e))]
                 /\ pc' = [pc EXCEPT ![e] = "fetching"]
                 /\ UNCHANGED <<cache, outcome, calls>>
            ELSE /\ Settle(e, NetworkFailure(EncryptError))
                 /\ UNCHANGED fetches
  /\ UNCHANGED <<twin, cfg, ticks, storage, inflight, auth, response, thrown, refreshes, relay, aborted>>

\* the transport call rejected with err
FetchReject(e, err) ==
  /\ pc[e] = "fetching"
  /\ thrown' = [thrown EXCEPT ![e] = err]
  /\ Settle(e, NetworkFailure(err))
  /\ UNCHANGED <<twin, cfg, ticks, storage, inflight, auth, response, fetches, refreshes, relay, aborted>>

\* ------------------------------------------------------------ streaming
\* values reader.read() can deliver: two different byte chunks, a
\* zero-length Uint8Array, and no value at all (value: undefined)
EmptyChunk == ""
Chunks == {"c1", "c2", EmptyChunk, Absent}

\* streamResponse, line 15: `if (value)`.  A Uint8Array is an object and an
\* object is truthy whatever its length; only a missing value is falsy
ChunkTruthy(value) == value # Absent

\* handler calls as streamResponse makes them: <<handler, argument>>
OnStart(resp) == <<"onStart", resp.status>>
OnChunk(value) == <<"onChunk", value>>
OnComplete == <<"onComplete", Null>>
OnError(err) == <<"onError", err.message>>

\* streamResponse, lines 5-10: onStart, then getReader(); a response without
\* a body gets onComplete at once and the relay returns
RelayStart(resp, hasBody) ==
  IF hasBody
    THEN [log |-> <<OnStart(resp)>>, read |-> <<>>, reader |-> "locked", releases |-> 0]
    ELSE [log |-> <<OnStart(resp), OnComplete>>, read |-> <<>>, reader |-> "none", releases |-> 0]

\* streamResponse, lines 13-15: one read() that delivered value
RelayRead(r, value) ==
  [r EXCEPT !.read = Append(@, value),
            !.log = IF ChunkTruthy(value) THEN Append(@, OnChunk(value)) ELSE @]

\* streamResponse, lines 23-25: finally { reader.releaseLock() }
ReleaseLock(r) == [r EXCEPT !.reader = "released", !.releases = @ + 1]

\* streamResponse, lines 14 and 17: read() reported done
RelayDone(r) == ReleaseLock([r EXCEPT !.log = Append(@, OnComplete)])

\* streamResponse, lines 18-22: the try block threw err
RelayCatch(r, err) == ReleaseLock([r EXCEPT !.log = Append(@, OnError(err))])

StreamFailure_FallbackOnly(resp, err) ==
  Failure(resp.status, resp.contentType,
          [code |-> "ERR_STREAM", message |-> err.message, details |-> NoData])

\* execute(), lines 292-300: the Failure for a relay that threw err
StreamFailure(resp, err) ==
  Failure(resp.status, resp.contentType, makeErrorShape(toApiError(err, "ERR_STREAM")))

\* the transport call resolved to resp: a streaming request hands it to
\* streamResponse, which runs up to its first read(); any other request
\* decodes it (lines 283-342)
FetchResolve(e, resp) ==
  /\ pc[e] = "fetching"
  /\ response' = [response EXCEPT ![e] = resp]
  /\ IF calls[e].req.stream
       THEN \E hasBody \in BOOLEAN :
              /\ relay' = [relay EXCEPT ![e] = RelayStart(resp, hasBody)]
              /\ IF hasBody
                   THEN /\ pc' = [pc EXCEPT ![e] = "stream"]
                        /\ UNCHANGED <<cache, outcome, calls>>
                   ELSE Settle(e, Success(resp.status, resp.contentType, NoData))
       ELSE /\ Settle(e, DecodeResponse(resp, cfg.encryption))
            /\ UNCHANGED relay
  /\ UNCHANGED <<twin, cfg, ticks, storage, inflight, auth, thrown, fetches, refreshes, aborted>>

\* reader.read() delivered value, and onChunk (when called) returned
StreamChunk(e, value) ==
  /\ pc[e] = "stream"
  /\ Len(relay[e].read) < MaxChunks
  /\ relay' = [relay EXCEPT ![e] = RelayRead(@, value)]
  /\ UNCHANGED <<twin, cfg, ticks, storage, cache, inflight, calls, pc, auth, response, thrown, outcome,
                 fetches, refreshes, aborted>>

\* the value a failing reader.read() or stream handler throws
StreamError == [isApiError |-> FALSE, isObject |-> TRUE, message |-> "stream broke", code |-> Absent]
HandlerError == [isApiError |-> FALSE, isObject |-> TRUE, message |-> "handler threw", code |-> Absent]
\* the DOMException of an aborted signal: name AbortError, legacy code 20
AbortError == [isApiError |-> FALSE, isObject |-> TRUE, message |-> "The operation was aborted", code |-> "20"]

\* reader.read() delivered value and onChunk threw (lines 15, 18-25, 292-300)
StreamChunkThrows(e, value) ==
  /\ pc[e] = "stream"
  /\ Len(relay[e].read) < MaxChunks
  /\ ChunkTruthy(value)
  /\ relay' = [relay EXCEPT ![e] = RelayCatch(RelayRead(@, value), HandlerError)]
  /\ Settle(e, StreamFailure(response[e], HandlerError))
  /\ UNCHANGED <<twin, cfg, ticks, storage, inflight, auth, response, thrown, fetches, refreshes, aborted>>

StreamComplete_ChecksStatus(e) ==
  /\ pc[e] = "stream"
  /\ relay' = [relay EXCEPT ![e] = RelayDone(@)]
  /\ Settle(e, IF response[e].status >= 200 /\ response[e].status <= 299
                 THEN Success(response[e].status, response[e].contentType, NoData)
                 ELSE Failure(response[e].status, response[e].contentType,
                              HttpErrorShape(NoData)))
  /\ UNCHANGED <<twin, cfg, ticks, storage, inflight, auth, response, thrown, fetches, refreshes,
                 aborted>>

\* reader.read() reported done: streamResponse returned (lines 14, 17, 285-291)
StreamComplete(e) ==
  /\ pc[e] = "stream"
  /\ relay' = [relay EXCEPT ![e] = RelayDone(@)]
  /\ Settle(e, Success(response[e].status, response[e].contentType, NoData))
  /\ UNCHANGED <<twin, cfg, ticks, storage, inflight, auth, response, thrown, fetches, refreshes, aborted>>

\* reader.read() rejected with err: streamResponse threw (lines 18-25, 292-300)
StreamFail(e, err) ==
  /\ pc[e] = "stream"
  /\ relay' = [relay EXCEPT ![e] = RelayCatch(@, err)]
  /\ Settle(e, StreamFailure(response[e], err))
  /\ UNCHANGED <<twin, cfg, ticks, storage, inflight, auth, response, thrown, fetches, refreshes, aborted>>

\* ----------------------------------------------------------- cancellation
\* the caller of request() call c aborts the signal it passed as req.signal
AbortSignal(c) ==
  /\ calls[c].state # "idle"
  /\ ~aborted[c]
  /\ aborted' = [aborted EXCEPT ![c] = TRUE]
  /\ UNCHANGED <<twin, cfg, ticks, storage, cache, inflight, calls, pc, auth, response, thrown, outcome,
                 fetches, refreshes, relay>>

SignalOf_LastCaller(e) ==
  CHOOSE c \in CallIds : /\ calls[c].exec = e
                          /\ \A d \in CallIds : calls[d].exec = e => d <= c

\* the signal attached to the last transport call of execution e
SignalOf(e) == fetches[e][Len(fetches[e])].init.signal

\* the transport call of e rejects because the signal in its init is aborted
FetchAbort(e) ==
  /\ pc[e] = "fetching"
  /\ aborted[SignalOf(e)]
  /\ FetchReject(e, AbortError)

\* the body read of e rejects because the signal of its fetch is aborted
StreamAbort(e) ==
  /\ pc[e] = "stream"
  /\ aborted[SignalOf(e)]
  /\ StreamFail(e, AbortError)

FinallyDelete_KeepsEntry(e) ==
  /\ pc[e] = "settled"
  /\ pc' = [pc EXCEPT ![e] = "done"]
  /\ calls' = Delivered(e, outcome[e])
  /\ UNCHANGED <<twin, cfg, ticks, storage, cache, inflight, auth, response, thrown, outcome, fetches,
                 refreshes, relay, aborted>>

\* InFlightDeduper.set, line 38: promise.finally(() => this.map.delete(key)),
\* the first reaction registered on `exec`
FinallyDelete(e) ==
  /\ pc[e] = "settled"
  /\ inflight' = [inflight EXCEPT ![calls[e].key] = 0]
  /\ pc' = [pc EXCEPT ![e] = "done"]
  /\ calls' = Delivered(e, outcome[e])
  /\ UNCHANGED <<twin, cfg, ticks, storage, cache, auth, response, thrown, outcome, fetches, refreshes,
                 relay, aborted>>

\* ApiClient.setTokens: refreshToken ?? null, then AuthManager.setTokens
SetTokens(tokens) ==
  /\ storage' = AuthSetTokens(storage,
                   [accessToken |-> tokens.accessToken,
                    refreshToken |-> IF tokens.refreshToken = Absent THEN Null
                                     ELSE tokens.refreshToken])
  /\ UNCHANGED <<twin, cfg, ticks, cache, inflight, calls, pc, auth, response, thrown, outcome, fetches,
                 refreshes, relay, aborted>>

ClearTokens_FlushesCache ==
  /\ storage' = EmptyTokens
  /\ cache' = [k \in DOMAIN cache |-> NoEntry]
  /\ UNCHANGED <<twin, cfg, ticks, inflight, calls, pc, auth, response, thrown, outcome, fetches,
                 refreshes, relay, aborted>>

\* ApiClient.clearTokens -> MemoryTokenStorage.clear
ClearTokens ==
  /\ storage' = EmptyTokens
  /\ UNCHANGED <<twin, cfg, ticks, cache, inflight, calls, pc, auth, response, thrown, outcome, fetches,
                 refreshes, relay, aborted>>

\* the wall clock advances by a cache TTL; not between the settling of a
\* promise and its reactions, which run in the same microtask checkpoint
Tick ==
  /\ ticks < MaxTicks
  /\ \A e \in CallIds : pc[e] # "settled"
  /\ ticks' = ticks + 1
  /\ UNCHANGED <<twin, cfg, storage, cache, inflight, calls, pc, auth, response, thrown, outcome, fetches,
                 refreshes, relay, aborted>>

\* ------------------------------------------------------- derived client
StorageShared_Always(ext) == TRUE

\* AuthManager constructor, line 37: config?.storage ?? new MemoryTokenStorage()
\* -- do two clients built from the same options hold one Token Store
StorageShared(ext) == ext.storage

\* ApiClient constructor, lines 175-179: a supplied adapter is used as it is,
\* otherwise each client makes its own LruCacheAdapter
CacheShared(ext) == ext.cache

\* the client of request() call c
Owner(c) == IF twin.owner[c] # "none" THEN twin.owner[c] ELSE twin.active

\* ApiClient.withEncryption, called on the original client: new ApiClient of
\* { ...this.options, encryption: enc }.  The constructor gives it its own
\* InFlightDeduper, and its own Token Store and cache unless the options
\* carry them.
WithEncryption ==
  /\ ~twin.made /\ twin.active = "original"
  /\ twin' = [twin EXCEPT !.made = TRUE,
                         !.parked = [cfg |-> [cfg EXCEPT !.encryption = TRUE],
                                     storage |-> EmptyTokens,
                                     cache |-> [k \in DOMAIN cache |-> NoEntry],
                                     inflight |-> [k \in DOMAIN inflight |-> 0]]]
  /\ UNCHANGED <<cfg, ticks, storage, cache, inflight, calls, pc, auth, response, thrown, outcome,
                 fetches, refreshes, relay, aborted>>

\* the caller turns to the other client: its fields come into view.  A store
\* both clients hold is the same object and stays where it is.
Focus ==
  /\ twin.made
  /\ cfg' = twin.parked.cfg
  /\ storage' = IF StorageShared(twin.ext) THEN storage ELSE twin.parked.storage
  /\ cache' = IF CacheShared(twin.ext) THEN cache ELSE twin.parked.cache
  /\ inflight' = twin.parked.inflight
  /\ twin' = [twin EXCEPT !.active = IF @ = "original" THEN "derived" ELSE "original",
                         !.parked = [cfg |-> cfg, storage |-> storage, cache |-> cache,
                                     inflight |-> inflight],
                         !.owner = [c \in CallIds |->
                                      IF calls[c].state # "idle" /\ twin.owner[c] = "none"
                                        THEN twin.active ELSE twin.owner[c]]]
  /\ UNCHANGED <<ticks, calls, pc, auth, response, thrown, outcome, fetches, refreshes, relay,
                 aborted>>

\* ------------------------------------------------------- specifications
\* Spec: concurrent calls with token refresh and a clock, against a server
\* that answers a success or a structured failure, or is unreachable.
CoreConfigs == {c \in Configs : ~c.gatewayPath}
CoreReqs == {r \in Reqs : ~r.stream}
CoreResponses == {r \in Responses : r.contentType = "application/json" /\ r.json
                                     /\ r.data \in {ObjPlain, ObjCodeMsg}
                                     /\ (r.status = 404 <=> r.data = ObjCodeMsg)}
CoreErrors == {e \in ThrownErrors : e.isObject /\ e.code = Absent}
CoreSetTokens == {t \in SetTokenInputs : t.refreshToken # Absent}
CoreRefreshOutputs == {t \in RefreshOutputs : t.accessToken # Null /\ t.refreshToken # Absent}

Init == \E c \in CoreConfigs : InitWith(c)

Next ==
  \/ \E req \in CoreReqs : Request(req)
  \/ \E e \in CallIds, updated \in CoreRefreshOutputs : RefreshResolve(e, updated)
  \/ \E e \in CallIds : RefreshReject(e)
  \/ \E e \in CallIds : Send(e)
  \/ \E e \in CallIds, err \in CoreErrors : FetchReject(e, err)
  \/ \E e \in CallIds, resp \in CoreResponses : FetchResolve(e, resp)
  \/ \E e \in CallIds : FinallyDelete(e)
  \/ \E tokens \in CoreSetTokens : SetTokens(tokens)
  \/ ClearTokens
  \/ Tick

Spec == Init /\ [][Next]_vars

\* SpecAuth: one call at a time through AuthManager, with every token pair a
\* caller or a refresh callback can supply; no encryption, no gateway.
AuthConfigs == {c \in Configs : ~c.gatewayPath /\ ~c.encryption}

InitAuth == \E c \in AuthConfigs : InitWith(c)

NextAuth ==
  \/ \E req \in CoreReqs : NextCall <= AuthCalls /\ Request(req)
  \/ \E e \in CallIds, updated \in RefreshOutputs : RefreshResolve(e, updated)
  \/ \E e \in CallIds : RefreshReject(e)
  \/ \E e \in CallIds : Send(e)
  \/ \E e \in CallIds, err \in CoreErrors : FetchReject(e, err)
  \/ \E e \in CallIds, resp \in CoreResponses : FetchResolve(e, resp)
  \/ \E e \in CallIds : FinallyDelete(e)
  \/ \E tokens \in SetTokenInputs : SetTokens(tokens)
  \/ ClearTokens
  \/ Tick

SpecAuth == InitAuth /\ [][NextAuth]_vars

\* SpecWire: every client configuration, every request shape, every response
\* and every thrown value, with a live access token or none.
InitWire == \E c \in Configs : InitWith(c)

NextWire ==
  \/ \E req \in Reqs : NextCall <= WireCalls /\ Request(req)
  \/ \E e \in CallIds : Send(e)
  \/ \E e \in CallIds, err \in ThrownErrors : FetchReject(e, err)
  \/ \E e \in CallIds, resp \in Responses : FetchResolve(e, resp)
  \/ \E e \in CallIds : StreamComplete(e)
  \/ \E e \in CallIds : StreamFail(e, StreamError)
  \/ \E e \in CallIds : FinallyDelete(e)
  \/ \E tokens \in CoreSetTokens : SetTokens(tokens)

SpecWire == InitWire /\ [][NextWire]_vars

\* SpecStream: one streaming request whose body is read chunk by chunk, with
\* read failures, a throwing onChunk handler and cancellation.
StreamConfigs == {c \in Configs : ~c.gatewayPath /\ ~c.encryption /\ ~c.onRefresh}
StreamReqs == {r \in Reqs : r.stream}
StreamResponses == {r \in Responses : r.json /\ r.data = ObjPlain /\ ~r.cipher}

InitStream == \E c \in StreamConfigs : InitWith(c)

NextStream ==
  \/ \E req \in StreamReqs : NoCallYet /\ Request(req)
  \/ \E e \in CallIds : Send(e)
  \/ \E e \in CallIds, err \in CoreErrors : FetchReject(e, err)
  \/ \E e \in CallIds, resp \in StreamResponses : FetchResolve(e, resp)
  \/ \E e \in CallIds, value \in Chunks : StreamChunk(e, value)
  \/ \E e \in CallIds, value \in Chunks : StreamChunkThrows(e, value)
  \/ \E e \in CallIds : StreamComplete(e)
  \/ \E e \in CallIds : StreamFail(e, StreamError)
  \/ \E c \in CallIds : AbortSignal(c)
  \/ \E e \in CallIds : FetchAbort(e)
  \/ \E e \in CallIds : StreamAbort(e)
  \/ \E e \in CallIds : FinallyDelete(e)

SpecStream == InitStream /\ [][NextStream]_vars

\* SpecShare: concurrent calls, streaming or not, with their own headers and
\* cancellation signals, on a caching and deduplicating client without
\* encryption or tokens.
ShareConfigs == {c \in Configs : /\ ~c.gatewayPath /\ ~c.encryption /\ ~c.onRefresh
                                   /\ c.cache /\ c.dedup}
ShareReqs == {r \in ReqsOf(Methods, AllTags) : r.method = "GET" \/ (~r.stream /\ r.tag \in Tags)}

InitShare == \E c \in ShareConfigs : InitWith(c)

NextShare ==
  \/ \E req \in ShareReqs : Request(req)
  \/ \E e \in CallIds : Send(e)
  \/ \E e \in CallIds, err \in CoreErrors : FetchReject(e, err)
  \/ \E e \in CallIds, resp \in CoreResponses : FetchResolve(e, resp)
  \/ \E e \in CallIds : StreamComplete(e)
  \/ \E e \in CallIds : StreamFail(e, StreamError)
  \/ \E c \in CallIds : AbortSignal(c)
  \/ \E e \in CallIds : FetchAbort(e)
  \/ \E e \in CallIds : StreamAbort(e)
  \/ \E e \in CallIds : FinallyDelete(e)

SpecShare == InitShare /\ [][NextShare]_vars

\* SpecMethods: concurrent calls of any HttpMethod and a clock, on a caching
\* and deduplicating client, encrypting or not, without tokens; the transport
\* answers 200.
MethodConfigs == {c \in Configs : /\ ~c.gatewayPath /\ ~c.onRefresh /\ c.cache /\ c.dedup}
MethodReqs == {r \in ReqsOf(AllMethods, Tags) : ~r.stream}
OkResponses == {r \in CoreResponses : r.status = 200}

NextMethods ==
  \/ \E req \in MethodReqs : Request(req)
  \/ \E e \in CallIds : Send(e)
  \/ \E e \in CallIds, resp \in OkResponses : FetchResolve(e, resp)
  \/ \E e \in CallIds : FinallyDelete(e)
  \/ Tick

InitMethods == \E c \in MethodConfigs : InitWith(c)

SpecMethods == InitMethods /\ [][NextMethods]_vars

\* SpecExpiry: concurrent calls and a clock on a caching client, deduplicating
\* or not, encrypting or not, without tokens; the transport answers 200 or 404
\* or rejects.
ExpiryConfigs == {c \in Configs : ~c.gatewayPath /\ ~c.onRefresh /\ c.cache}

InitExpiry == \E c \in ExpiryConfigs : InitWith(c)

NextExpiry ==
  \/ \E req \in CoreReqs : Request(req)
  \/ \E e \in CallIds : Send(e)
  \/ \E e \in CallIds, err \in CoreErrors : FetchReject(e, err)
  \/ \E e \in CallIds, resp \in CoreResponses : FetchResolve(e, resp)
  \/ \E e \in CallIds : FinallyDelete(e)
  \/ Tick

SpecExpiry == InitExpiry /\ [][NextExpiry]_vars

\* SpecRefresh: concurrent calls through AuthManager and a clock, with or
\* without a refresh callback, on a client that does not cache; no
\* encryption, no gateway.
RefreshConfigs == {c \in Configs : ~c.gatewayPath /\ ~c.encryption /\ ~c.cache}

InitRefresh == \E c \in RefreshConfigs : InitWith(c)

NextRefresh ==
  \/ \E req \in CoreReqs : Request(req)
  \/ \E e \in CallIds, updated \in CoreRefreshOutputs : RefreshResolve(e, updated)
  \/ \E e \in CallIds : RefreshReject(e)
  \/ \E e \in CallIds : Send(e)
  \/ \E e \in CallIds, resp \in OkResponses : FetchResolve(e, resp)
  \/ \E e \in CallIds : FinallyDelete(e)
  \/ \E tokens \in CoreSetTokens : SetTokens(tokens)
  \/ Tick

SpecRefresh == InitRefresh /\ [][NextRefresh]_vars

\* SpecTokens: concurrent calls on a caching client whose caller sets,
\* replaces and clears the tokens between them; no refresh callback, no
\* encryption, no gateway.
TokenConfigs == {c \in Configs : /\ ~c.gatewayPath /\ ~c.encryption /\ ~c.onRefresh
                                   /\ c.cache}
\* pairs given to setTokens: a JWT or an opaque access token, no refresh token
TokenInputs == [accessToken : AccessTokens \cup {"opaque"}, refreshToken : {Absent}]

InitTokens == \E c \in TokenConfigs : InitWith(c)

NextTokens ==
  \/ \E req \in CoreReqs : Request(req)
  \/ \E e \in CallIds : Send(e)
  \/ \E e \in CallIds, resp \in CoreResponses : FetchResolve(e, resp)
  \/ \E e \in CallIds : FinallyDelete(e)
  \/ \E tokens \in TokenInputs : SetTokens(tokens)
  \/ ClearTokens

SpecTokens == InitTokens /\ [][NextTokens]_vars

\* SpecDerive: a caching, deduplicating client without encryption, the client
\* withEncryption makes from it, and calls on both; tokens are set on the
\* original only.  The options may carry a token storage or a cache adapter.
DeriveConfigs == {c \in Configs : /\ ~c.gatewayPath /\ ~c.encryption /\ ~c.onRefresh
                                    /\ c.cache /\ c.dedup}

DeriveExts == {x \in Exts : x.cacheTtlMs = CacheTtlMs}

InitDerive == \E c \in DeriveConfigs, ext \in DeriveExts : InitClient(c, Keys, ext)

NextDerive ==
  \/ \E req \in CoreReqs : Request(req)
  \/ \E e \in CallIds : Owner(e) = twin.active /\ Send(e)
  \/ \E e \in CallIds, resp \in OkResponses : Owner(e) = twin.active /\ FetchResolve(e, resp)
  \/ \E e \in CallIds : Owner(e) = twin.active /\ FinallyDelete(e)
  \/ \E tokens \in CoreSetTokens : twin.active = "original" /\ SetTokens(tokens)
  \/ WithEncryption
  \/ Focus

SpecDerive == InitDerive /\ [][NextDerive]_vars

\* SpecRace: concurrent GET calls through AuthManager with a refresh callback
\* and a clock, while the caller replaces and clears the tokens; the client
\* neither caches nor deduplicates, so every call has its own execution; no
\* encryption, no gateway.
RaceConfigs == {c \in Configs : /\ ~c.gatewayPath /\ ~c.encryption /\ ~c.cache
                                  /\ ~c.dedup /\ c.onRefresh}
RaceReqs == {r \in CoreReqs : r.method = "GET"}
\* pairs given to setTokens: always with a refresh token
RaceInputs == [accessToken : AccessTokens, refreshToken : RefreshTokens \cup {"r3"}]

\* pairs the refresh callback resolves to: with or without a refresh token
RaceOutputs == {t \in RefreshOutputs : t.accessToken # Null}

InitRace == \E c \in RaceConfigs : InitWith(c)

NextRace ==
  \/ \E req \in RaceReqs : Request(req)
  \/ \E e \in CallIds, updated \in RaceOutputs : RefreshResolve(e, updated)
  \/ \E e \in CallIds : Send(e)
  \/ \E e \in CallIds, resp \in OkResponses : FetchResolve(e, resp)
  \/ \E tokens \in RaceInputs : SetTokens(tokens)
  \/ ClearTokens
  \/ Tick

SpecRace == InitRace /\ [][NextRace]_vars

\* SpecTtl: concurrent calls and a clock on a caching and deduplicating
\* client whose cacheTtlMs is 0 or the default; no encryption, no tokens; the
\* transport answers 200 or 404.
TtlConfigs == {c \in Configs : /\ ~c.gatewayPath /\ ~c.encryption /\ ~c.onRefresh
                                 /\ c.cache /\ c.dedup}
TtlExts == {x \in Exts : ~x.storage /\ ~x.cache}

InitTtl == \E c \in TtlConfigs, ext \in TtlExts : InitClient(c, Keys, ext)

NextTtl ==
  \/ \E req \in CoreReqs : Request(req)
  \/ \E e \in CallIds : Send(e)
  \/ \E e \in CallIds, resp \in CoreResponses : FetchResolve(e, resp)
  \/ \E e \in CallIds : FinallyDelete(e)
  \/ Tick

SpecTtl == InitTtl /\ [][NextTtl]_vars

\* SpecKey: the cache key of request(), over two requests of every method
\* (or none), two targets, bodies of every kind, with and without an explicit
\* cache key; the client neither caches nor deduplicates, so each call computes
\* its key and goes on to execute().
KeyUrls == {"http://localhost/users/me", "http://localhost/users/me?page=2"}
KeyBodies ==
  { Undefined, NullBody,
    Obj(<< <<"name", "x">> >>), Obj(<< <<"name", "y">> >>),
    Form(<< <<"file", "f1">> >>), Form(<< <<"file", "f2">> >>) }
ExplicitKeys == {"k1"}
KeyMethods == {Absent, "GET", "POST", "FORMDATA"}
KeyReqs == [url : KeyUrls, method : KeyMethods, stream : {FALSE}, tag : Tags,
            body : KeyBodies, cacheKey : ExplicitKeys \cup {Absent}]
KeyConfigs == {c \in Configs : ~c.gatewayPath /\ ~c.encryption /\ ~c.onRefresh
                                 /\ ~c.cache /\ ~c.dedup}

InitKey == \E c \in KeyConfigs : InitKeyed(c, {CacheKeyOf(r) : r \in KeyReqs})

NextKey == \E req \in KeyReqs : Request(req)

SpecKey == InitKey /\ [][NextKey]_vars

\* ------------------------------------------------------------------ claims
Settled(c) == calls[c].state \in {"resolved", "rejected"}

\* caller c issued its request() while execution calls[c].pendingAtIssue was
\* registered under the same key and unsettled, and the cache had no entry
JoinedPending(c) == calls[c].state # "idle" /\ calls[c].pendingAtIssue # 0 /\ ~calls[c].fresh

C2_NeverRejects == \A c \in CallIds : calls[c].state # "rejected"

Rank(ev) == IF ev = "cache" THEN 1 ELSE IF ev = "dedup" THEN 2 ELSE 3

\* C3: a request() that finds a live cache entry returns it: no transport
\* call, no token read, no refresh call, no in-flight entry; and in every
\* call the cache lookup precedes the in-flight lookup, which precedes auth.
C3_CacheHitBypasses ==
  \A c \in CallIds :
    /\ calls[c].fresh =>
         /\ calls[c].state = "resolved" /\ calls[c].via = "cache"
         /\ calls[c].result = calls[c].freshValue
         /\ fetches[c] = <<>> /\ refreshes[c] = <<>>
         /\ auth[c] = NoAuth /\ pc[c] = "none"
         /\ \A k \in Keys : inflight[k] # c
         /\ calls[c].trace = <<"cache">>
    /\ \A i, j \in DOMAIN calls[c].trace :
         i < j => Rank(calls[c].trace[i]) < Rank(calls[c].trace[j])
    /\ (calls[c].state # "idle" /\ cfg.cache) => calls[c].trace[1] = "cache"
    /\ (calls[c].via \in {"join", "exec"} /\ cfg.dedup) =>
         \E i \in DOMAIN calls[c].trace : calls[c].trace[i] = "dedup"
    /\ fetches[c] # <<>> => calls[c].trace[Len(calls[c].trace)] = "auth"

C3_Witness ==
  \E c \in CallIds : /\ calls[c].fresh /\ calls[c].via = "cache"
                      /\ storage.accessToken # Null

\* C4: every cache entry holds a Success, and so does every Result a caller
\* got from the cache.
C4_OnlySuccessCached ==
  /\ \A k \in Keys : cache[k].present => cache[k].value.ok
  /\ \A c \in CallIds : calls[c].via = "cache" => calls[c].result.ok

C4_Witness ==
  /\ cfg.cache
  /\ \E e \in CallIds : /\ pc[e] = "done" /\ outcome[e].state = "fulfilled"
                          /\ ~outcome[e].value.ok
                          /\ ~cache[calls[e].key].present

\* what getValidAccessToken of execution e read from the Token Store
ExpiredAtRead(e) ==
  /\ auth[e].read.accessToken # Null
  /\ JwtExp(auth[e].read.accessToken) # 0
  /\ auth[e].readAt >= JwtExp(auth[e].read.accessToken) * 1000
CanRefresh(e) == cfg.onRefresh /\ auth[e].read.refreshToken \notin {Null, Absent}
Started(e) == pc[e] # "none"
Finished(e) == pc[e] \in {"settled", "done"}

\* the Result the one transport call of execution e leads to
ResultOfCall(e) ==
  IF thrown[e] # NoThrown THEN NetworkFailure(thrown[e])
  ELSE DecodeResponse(response[e], cfg.encryption)

ExpOf(tok) == IF tok = Null THEN 0 ELSE JwtExp(tok) * 1000
BearerOk(e, tok) ==
  \A i \in DOMAIN fetches[e] :
    IF tok = Null THEN "authorization" \notin DOMAIN fetches[e][i].init.headers
    ELSE /\ "authorization" \in DOMAIN fetches[e][i].init.headers
         /\ fetches[e][i].init.headers["authorization"] = <<"Bearer", tok>>

C6_State ==
  \A e \in CallIds : Started(e) =>
    /\ (ExpiredAtRead(e) /\ CanRefresh(e)) =>
         /\ refreshes[e] = <<auth[e].read>>
         /\ (pc[e] # "refresh" /\ outcome[e].state # "rejected") =>
              /\ auth[e].token = auth[e].updated.accessToken
              /\ BearerOk(e, auth[e].updated.accessToken)
    /\ (auth[e].read.accessToken # Null /\ ~ExpiredAtRead(e)) =>
         /\ refreshes[e] = <<>> /\ pc[e] # "refresh"
         /\ auth[e].token = auth[e].read.accessToken
         /\ BearerOk(e, auth[e].read.accessToken)

C6_Step ==
  \A e \in CallIds :
    /\ (pc[e] = "refresh" /\ pc'[e] = "send") =>
         /\ storage'.accessToken = auth'[e].updated.accessToken
         /\ storage'.accessTokenExpiresAt = ExpOf(auth'[e].updated.accessToken)
         /\ storage'.refreshToken = IF auth'[e].updated.refreshToken = Absent
                                      THEN storage.refreshToken
                                      ELSE auth'[e].updated.refreshToken
    /\ (pc[e] = "none" /\ pc'[e] = "send") => storage' = storage

\* C6: an expired token with a refresh callback and a refresh token makes
\* getValidAccessToken call the callback once with the pair it read, write
\* the returned pair to the Token Store with the expiry of the new access
\* token (a pair without a refresh token field leaves the stored one), and
\* return the new access token, which is the bearer of that request; a token
\* that is not expired is returned as it is and the store is not written.
C6_RefreshPersists == []C6_State /\ [][C6_Step]_vars

C6_Witness ==
  \E e \in CallIds : /\ ExpiredAtRead(e) /\ CanRefresh(e) /\ pc[e] = "fetching"
                      /\ auth[e].updated.accessToken # Null
                      /\ storage.accessToken = auth[e].updated.accessToken

BodyDecodes(resp, encryption) ==
  IF resp.contentType = "application/octet-stream" /\ encryption THEN resp.cipher /\ resp.json
  ELSE IF resp.contentType = "application/json" THEN ~resp.cipher /\ resp.json
  ELSE TRUE
DecodedBody(resp, encryption) ==
  IF (resp.contentType = "application/octet-stream" /\ encryption)
     \/ resp.contentType = "application/json" THEN resp.data ELSE TextData

\* C8 (as stated): a failure status with a decodable body gives a Failure with
\* that status whose error is the body itself when the body has the
\* code/message shape and an ERR_HTTP error with the body as details
\* otherwise; either way the error has a code and a message.
C8_StructuredHttpError ==
  \A e \in CallIds :
    ( /\ Finished(e) /\ ~calls[e].req.stream /\ response[e] # NoResponse
      /\ response[e].status >= 400
      /\ BodyDecodes(response[e], cfg.encryption) ) =>
    LET d == DecodedBody(response[e], cfg.encryption)
        r == outcome[e].value
    IN /\ outcome[e].state = "fulfilled" /\ ~r.ok /\ r.status = response[e].status
       /\ IF d.type = "object" /\ d.code # Absent /\ d.message # Absent
            THEN r.error.code = d.code /\ r.error.message = d.message
            ELSE r.error.code = "ERR_HTTP" /\ r.error.details = d
       /\ r.error.code # Absent /\ r.error.message # Absent

\* what an observer of a transport call reads without the key: its URL
\* argument and whatever part of its body is not under encryption
ClearAtoms(f) ==
  {f.url}
    \cup (IF f.init.body.env.present /\ ~f.init.body.envSealed
            THEN {f.init.body.env.url} ELSE {})
    \cup (IF f.init.body.payload # Null /\ f.init.body.payloadLayers = 0
            THEN {f.init.body.payload} ELSE {})

C10_HeadersHidden ==
  (cfg.encryption /\ cfg.gatewayPath) =>
    \A e \in CallIds : \A i \in DOMAIN fetches[e] :
      fetches[e][i].init.body.env.present =>
        /\ fetches[e][i].init.body.envSealed
        /\ DOMAIN fetches[e][i].init.headers
             \cap DOMAIN fetches[e][i].init.body.env.headers = {}

\* the relay of execution e ran and returned or threw
Relayed(e) == Finished(e) /\ calls[e].req.stream /\ response[e] # NoResponse
HasEvent(e, name) == \E i \in DOMAIN relay[e].log : relay[e].log[i][1] = name
NonEmptyChunk(value) == value \notin {Absent, EmptyChunk}
ChunkCalls(values) == [i \in DOMAIN values |-> OnChunk(values[i])]

\* C11 (as stated): a relay that ends gracefully called onStart once, first,
\* then onChunk once for each non-empty chunk in the order read and for no
\* empty chunk, then onComplete once, and request() resolves to Success with
\* empty data; without a body, onStart is followed directly by onComplete.
C11_HandlerOrder ==
  \A e \in CallIds : (Relayed(e) /\ ~HasEvent(e, "onError")) =>
    /\ relay[e].log = <<OnStart(response[e])>>
                        \o ChunkCalls(SelectSeq(relay[e].read, NonEmptyChunk))
                        \o <<OnComplete>>
    /\ outcome[e] = [state |-> "fulfilled",
                     value |-> Success(response[e].status, response[e].contentType, NoData)]
    /\ relay[e].reader = "none" => relay[e].log = <<OnStart(response[e]), OnComplete>>

\* the error a failed relay of e passed to onError
RelayFailedWith(e, err) ==
  Relayed(e) /\ \E i \in DOMAIN relay[e].log : relay[e].log[i] = OnError(err)
ReadErrors == {StreamError, AbortError}

\* on every exit path the reader, once acquired, is released exactly once
\* before the relay returns, and never without having been acquired
ReaderReleased ==
  \A e \in CallIds :
    /\ relay[e].reader = "locked" => (pc[e] = "stream" /\ relay[e].releases = 0)
    /\ relay[e].reader = "released" => (Relayed(e) /\ relay[e].releases = 1)
    /\ relay[e].reader = "none" => relay[e].releases = 0
    /\ (Relayed(e) /\ relay[e].read # <<>>) => relay[e].reader = "released"

EndedBeforeTransport(e) ==
  \/ outcome[e].state = "rejected" /\ Len(refreshes[e]) = 1
  \/ cfg.encryption /\ outcome[e] = [state |-> "fulfilled", value |-> NetworkFailure(EncryptError)]

\* call c was given an execution of its own, which makes its own transport
\* call when it comes to the transport step
OwnExecution(c) ==
  /\ calls[c].via = "exec" /\ calls[c].exec = c /\ Started(c)
  /\ Len(fetches[c]) <= 1
  /\ pc[c] \in {"fetching", "stream"} => Len(fetches[c]) = 1
  /\ Finished(c) => (Len(fetches[c]) = 1 \/ EndedBeforeTransport(c))

\* call c was given an execution of its own, which makes a transport call
OwnTransport(c) == OwnExecution(c) /\ (Finished(c) => Len(fetches[c]) = 1)

Issued(c) == calls[c].state = "idle" /\ calls'[c].state # "idle"

\* a request() issued while the entry of its key was live got the cached
\* Result without a transport call
ServedFromCache ==
  \A c \in CallIds :
    calls[c].fresh => /\ calls[c].via = "cache" /\ fetches[c] = <<>>
                      /\ calls[c].result = calls[c].freshValue
                      /\ calls[c].result.ok

C12_State == ServedFromCache /\ \A c \in CallIds : calls[c].stale => OwnExecution(c)

C12_StateAsStated == ServedFromCache /\ \A c \in CallIds : calls[c].stale => OwnTransport(c)

C12_Step ==
  \A k \in DOMAIN cache :
    /\ (cache'[k] # cache[k] /\ cache'[k].present) =>
         /\ cache'[k].expiresAt = now + CacheTtlMs
         /\ \E e \in CallIds : /\ calls[e].key = k /\ outcome[e].state = "pending"
                               /\ outcome'[e] = [state |-> "fulfilled", value |-> cache'[k].value]
                               /\ cache'[k].value.ok
    /\ (cache[k].present /\ ~cache'[k].present) =>
         /\ now >= cache[k].expiresAt
         /\ \E c \in CallIds : Issued(c) /\ calls'[c].key = k /\ calls'[c].via # "cache"
    /\ \A c \in CallIds : (Issued(c) /\ calls'[c].key = k /\ cache[k].present) =>
         IF now < cache[k].expiresAt
           THEN /\ calls'[c].state = "resolved" /\ calls'[c].result = cache[k].value
                /\ cache'[k] = cache[k] /\ fetches' = fetches /\ pc' = pc
           ELSE /\ ~cache'[k].present /\ calls'[c].stale /\ calls'[c].via = "exec"
    /\ ticks' # ticks => cache' = cache

SameBody(a, b) ==
  \/ a = b
  \/ a.kind \in {"undefined", "null"} /\ b.kind \in {"undefined", "null"}

\* C13 (as stated): without an explicit cache key, equal (method, URL, body)
\* give the same key, an absent method gives the key of GET, and requests that
\* differ in method, URL or body give different keys; an explicit cache key is
\* used unchanged.
C13_KeyInjective ==
  \A c, d \in CallIds : (calls[c].state # "idle" /\ calls[d].state # "idle") =>
    LET a == calls[c].req
        b == calls[d].req
    IN /\ a.cacheKey # Absent => calls[c].key = a.cacheKey
       /\ (a.cacheKey = Absent /\ b.cacheKey = Absent) =>
            (calls[c].key = calls[d].key
               <=> (MethodOf(a) = MethodOf(b) /\ a.url = b.url /\ SameBody(a.body, b.body)))

Active(e) == pc[e] \in {"refresh", "send", "fetching", "stream", "settled"}

\* at its issue, call c's caller had seen an execution for the same key fail
SawFailure(c, d) ==
  /\ calls[c].state # "idle" /\ d \in calls[c].doneAtIssue
  /\ calls[d].key = calls[c].key /\ calls[d].exec = d
  /\ ~(outcome[d].state = "fulfilled" /\ outcome[d].value.ok)

RegistryState ==
  /\ \A k \in DOMAIN inflight : inflight[k] # 0 =>
       /\ cfg.dedup /\ calls[inflight[k]].key = k /\ calls[inflight[k]].via = "exec"
       /\ Active(inflight[k])
  /\ \A e \in CallIds : (cfg.dedup /\ Active(e)) => inflight[calls[e].key] = e
  /\ \A e \in CallIds : pc[e] = "done" => inflight[calls[e].key] # e
  /\ \A c \in CallIds : Settled(c) /\ calls[c].exec # 0 => inflight[calls[c].key] # calls[c].exec
  /\ \A c, d \in CallIds : SawFailure(c, d) => (calls[c].entryAtIssue # d /\ calls[c].exec # d)

\* call c was issued after a Failure for its key was seen, and found neither a
\* live cache entry nor a registered execution
FreshAfterFailure(c) ==
  /\ \E d \in CallIds : SawFailure(c, d)
  /\ calls[c].entryAtIssue = 0 /\ ~calls[c].fresh

C14_State == RegistryState /\ \A c \in CallIds : FreshAfterFailure(c) => OwnExecution(c)

C14_StateAsStated == RegistryState /\ \A c \in CallIds : FreshAfterFailure(c) => OwnTransport(c)

C14_Step ==
  \A k \in DOMAIN inflight : inflight'[k] # inflight[k] =>
    IF inflight'[k] # 0
      THEN /\ inflight[k] = 0
           /\ ~(cfg.cache /\ cache[k].present
                /\ (cache[k].expiresAt = 0 \/ now < cache[k].expiresAt))
           /\ Issued(inflight'[k]) /\ calls'[inflight'[k]].key = k
      ELSE /\ outcome[inflight[k]].state # "pending"
           /\ pc[inflight[k]] = "settled" /\ pc'[inflight[k]] = "done"

C15_GatewayOnlyWithEnvelope ==
  \A e \in CallIds : \A i \in DOMAIN fetches[e] :
    LET f == fetches[e][i]
    IN /\ f.url = GatewayUrl => (f.init.body.env.present /\ f.init.body.envSealed)
       /\ ~f.init.body.env.present => f.url = calls[e].req.url
       /\ f.init.body.env.present <=>
            (cfg.encryption /\ cfg.gatewayPath /\ f.init.body.kind = "blob")

\* the transport call of execution e was aborted through the signal of the
\* request that started it
AbortedByIssuer(e) == thrown[e] = AbortError /\ aborted[e] /\ calls[e].exec = e

C17_State ==
  \A e \in CallIds : AbortedByIssuer(e) =>
    /\ outcome[e] = [state |-> "fulfilled", value |-> NetworkFailure(AbortError)]
    /\ outcome[e].value.status = 0 /\ ~outcome[e].value.ok
    /\ ~(cache[calls[e].key].present /\ cache[calls[e].key].value = outcome[e].value)
    /\ pc[e] = "done" =>
         \A c \in CallIds : calls[c].exec = e =>
           /\ calls[c].state = "resolved"
           /\ calls[c].result = outcome[e].value

C17_Step ==
  \A e \in CallIds : (thrown[e] = NoThrown /\ thrown'[e] = AbortError) => cache' = cache

\* C17: when the signal of the request that started a shared execution aborts
\* its transport call, the execution is fulfilled with a status-0 Failure,
\* every caller holding that execution resolves to that one Failure as soon
\* as the reactions have run, and the cache is not written.
C17_AbortReachesAllWaiters == []C17_State /\ [][C17_Step]_vars

C17_Witness ==
  \E e, c \in CallIds : /\ c # e /\ AbortedByIssuer(e) /\ cfg.cache
                         /\ calls[c].via = "join" /\ calls[c].exec = e
                         /\ calls[c].state = "resolved" /\ calls[e].state = "resolved"
                         /\ ~aborted[c]

\* call c was answered from the cache or joined another call's execution
Inert(c) == calls[c].via \in {"cache", "join"}

CachedForAll ==
  \A c \in CallIds : calls[c].fresh =>
    /\ calls[c].via = "cache" /\ fetches[c] = <<>> /\ calls[c].result.ok
    /\ \E d \in CallIds : /\ d # c /\ calls[d].req.method = calls[c].req.method
                          /\ calls[d].key = calls[c].key
                          /\ outcome[d].state = "fulfilled"
                          /\ calls[c].result = outcome[d].value

\* an identical request issued while an earlier one is in flight joins it
JoinedForAll ==
  \A c \in CallIds : (cfg.dedup /\ JoinedPending(c)) =>
    LET e == calls[c].pendingAtIssue
    IN /\ calls[c].via = "join" /\ calls[c].exec = e /\ fetches[c] = <<>>
       /\ calls[e].req.method = calls[c].req.method
       /\ Len(fetches[e]) <= 1

\* requests are identical only when their methods are the same
KeyedByMethod ==
  \A c, d \in CallIds : (calls[c].state # "idle" /\ calls[d].state # "idle") =>
    (calls[d].key = calls[c].key <=> calls[d].req.method = calls[c].req.method)

FoundExpired(e) == Started(e) /\ ExpiredAtRead(e) /\ CanRefresh(e)

RECURSIVE RefreshCount(_)
RefreshCount(es) ==
  IF es = {} THEN 0
  ELSE LET e == CHOOSE x \in es : TRUE IN Len(refreshes[e]) + RefreshCount(es \ {e})

\* C18: every execution that finds the access token expired (with a refresh
\* callback and a refresh token) calls the refresh callback itself, once,
\* whatever other executions are doing: the number of refresh calls is the
\* number of such executions, and several can be pending at once.
C18_RefreshPerExecution ==
  /\ \A e \in CallIds : Len(refreshes[e]) = IF FoundExpired(e) THEN 1 ELSE 0
  /\ \A e \in CallIds : pc[e] = "refresh" => FoundExpired(e)
  /\ RefreshCount(CallIds) = Cardinality({e \in CallIds : FoundExpired(e)})

C18_Witness ==
  \E e, f \in CallIds : /\ e # f /\ pc[e] = "refresh" /\ pc[f] = "refresh"
                         /\ calls[e].key # calls[f].key
                         /\ Len(refreshes[e]) = 1 /\ Len(refreshes[f]) = 1

\* the step is a setTokens or clearTokens call that changed the Token Store
TokenCall == storage' # storage /\ pc' = pc

\* the execution whose Result call c was served from the cache
WriterOf(c, d) ==
  /\ d # c /\ calls[d].exec = d /\ calls[d].key = calls[c].key
  /\ outcome[d] = [state |-> "fulfilled", value |-> calls[c].result]
  /\ Len(fetches[d]) = 1

C21_State ==
  \A c \in CallIds : calls[c].via = "cache" =>
    /\ calls[c].state = "resolved" /\ fetches[c] = <<>> /\ pc[c] = "none"
    /\ \E d \in CallIds : WriterOf(c, d)

C21_Step ==
  /\ TokenCall => /\ cache' = cache /\ inflight' = inflight
                  /\ calls' = calls /\ fetches' = fetches /\ outcome' = outcome
  /\ \A c \in CallIds :
       (Issued(c) /\ cache[calls'[c].key].present
          /\ (cache[calls'[c].key].expiresAt = 0 \/ now < cache[calls'[c].key].expiresAt)) =>
         /\ calls'[c].via = "cache" /\ calls'[c].result = cache[calls'[c].key].value
         /\ fetches' = fetches /\ pc' = pc /\ storage' = storage

\* C21: setTokens and clearTokens change the Token Store and nothing else:
\* not the cache, not the in-flight registry, no call and no execution.  A
\* request() whose key is cached is served the cached Result without a
\* transport call whatever the Token Store holds then, also when the Result
\* was obtained with tokens that have since been cleared or replaced.
C21_TokensLeaveCache == []C21_State /\ [][C21_Step]_vars

\* a request served from the cache after clearTokens, with a Result that was
\* fetched with an authorization header
C21_Witness ==
  \E c, d \in CallIds :
    /\ calls[c].via = "cache" /\ WriterOf(c, d)
    /\ calls[c].storeAtHit.accessToken = Null
    /\ auth[d].token = "jwt-exp10"
    /\ "authorization" \in DOMAIN fetches[d][1].init.headers

\* execution e belongs to client cl and has made its transport call
SentBy(e, cl) == calls[e].state # "idle" /\ Owner(e) = cl /\ Len(fetches[e]) = 1

C22_State ==
  /\ \A e \in CallIds : SentBy(e, "original") => fetches[e][1].init.body.payloadLayers = 0
  /\ \A c \in CallIds : calls[c].via = "join" => Owner(calls[c].exec) = Owner(c)
  /\ (~twin.ext.storage /\ ~twin.ext.cache) =>
       /\ \A e \in CallIds : (calls[e].state # "idle" /\ Owner(e) = "derived") =>
            /\ auth[e].read = NoPair /\ calls[e].storeAtHit = NoPair
            /\ \A i \in DOMAIN fetches[e] :
                 "authorization" \notin DOMAIN fetches[e][i].init.headers
       /\ \A c \in CallIds : calls[c].via = "cache" =>
            \E d \in CallIds : WriterOf(c, d) /\ Owner(d) = Owner(c)

C22_Step ==
  (~twin.made /\ twin'.made) =>
    /\ cfg' = cfg /\ storage' = storage /\ cache' = cache /\ inflight' = inflight
    /\ calls' = calls /\ pc' = pc /\ fetches' = fetches /\ outcome' = outcome
    /\ twin'.parked.cfg = [cfg EXCEPT !.encryption = TRUE]
    /\ \A k \in DOMAIN inflight : twin'.parked.inflight[k] = 0
    /\ (~twin.ext.storage /\ ~twin.ext.cache) =>
         /\ twin'.parked.storage = EmptyTokens
         /\ \A k \in DOMAIN cache : ~twin'.parked.cache[k].present

\* C22: withEncryption makes a new client and changes nothing of the original,
\* whose requests stay unencrypted; an execution is never joined from the
\* other client.  When the options carry no token storage and no cache
\* adapter, the new client starts with an empty Token Store and an empty
\* cache of its own: its requests never read a token set on the original and
\* never carry an authorization header, and a request served from a cache
\* gets a Result that an execution of its own client wrote.
C22_DerivedClientApart == []C22_State /\ [][C22_Step]_vars

\* the original fetched and cached a Result with its token; the same request
\* on the derived client made its own, encrypted, transport call without an
\* authorization header
C22_Witness ==
  /\ twin.ext = NoExt
  /\ \E c, d \in CallIds :
       /\ SentBy(d, "original") /\ SentBy(c, "derived")
       /\ calls[c].key = calls[d].key /\ calls[c].req.method = "POST"
       /\ "authorization" \in DOMAIN fetches[d][1].init.headers
       /\ calls[d].state = "resolved" /\ calls[d].result.ok
       /\ calls[c].doneAtIssue = {d}
       /\ fetches[c][1].init.body.payloadLayers = 1
       /\ "authorization" \notin DOMAIN fetches[c][1].init.headers
       /\ calls[c].state = "resolved"

StoredPair == [accessToken |-> storage.accessToken, refreshToken |-> storage.refreshToken]

\* the refresh of execution e is pending and setTokens or clearTokens has
\* changed the Token Store since e read it
Overtaken(e) == pc[e] = "refresh" /\ StoredPair # auth[e].read

C23_State ==
  \A f \in CallIds : (Started(f) /\ auth[f].decision = "current") =>
    /\ auth[f].read.accessToken # Null /\ auth[f].token = auth[f].read.accessToken
    /\ BearerOk(f, auth[f].read.accessToken)

C23_Step ==
  /\ \A e \in CallIds : (Overtaken(e) /\ pc'[e] = "send") =>
       /\ storage'.accessToken = auth'[e].updated.accessToken
       /\ storage'.accessTokenExpiresAt = ExpOf(auth'[e].updated.accessToken)
       /\ auth'[e].updated.refreshToken # Absent =>
            storage'.refreshToken = auth'[e].updated.refreshToken
       /\ auth'[e].token = auth'[e].updated.accessToken
  /\ TokenCall => (refreshes' = refreshes /\ auth' = auth /\ outcome' = outcome)

\* C23: setTokens and clearTokens do not touch a pending refresh, and when it
\* completes its pair is written over whatever they stored: the access token
\* and its expiry always, the refresh token when the pair carries one.  A
\* later request reads what the store then holds, and a token it reads as
\* current is the bearer of its authorization header.
C23_LastWriterWins == []C23_State /\ [][C23_Step]_vars

\* clearTokens ran while the refresh of e was pending; the refresh then
\* stored its access token beside the cleared refresh token, and the later
\* request f carries it
C23_Witness ==
  \E e, f \in CallIds :
    /\ e # f
    /\ refreshes[e] = << [accessToken |-> "jwt-exp10", refreshToken |-> "r1"] >>
    /\ auth[e].updated = [accessToken |-> "opaque", refreshToken |-> Absent]
    /\ StoredPair = [accessToken |-> "opaque", refreshToken |-> Null]
    /\ auth[f].read = StoredPair /\ refreshes[f] = <<>>
    /\ Len(fetches[f]) = 1
    /\ fetches[f][1].init.headers["authorization"] = <<"Bearer", "opaque">>

\* the stream of execution e completed: streamResponse returned
StreamCompleted(e) == calls[e].req.stream /\ HasEvent(e, "onComplete") /\ Finished(e)

SuccessStatus(status) == status >= 200 /\ status <= 299

C24_State ==
  /\ \A e \in CallIds : StreamCompleted(e) =>
       outcome[e] = [state |-> "fulfilled",
                     value |-> Success(response[e].status, response[e].contentType, NoData)]
  /\ \A e \in CallIds :
       (~calls[e].req.stream /\ Finished(e) /\ response[e] # NoResponse
          /\ BodyDecodes(response[e], cfg.encryption)) =>
         /\ outcome[e].state = "fulfilled"
         /\ outcome[e].value.status = response[e].status
         /\ outcome[e].value.ok <=> SuccessStatus(response[e].status)

C24_Step ==
  \A e \in CallIds : (~Finished(e) /\ StreamCompleted(e)') =>
    cache'[calls[e].key] = IF cfg.cache THEN CacheSet(outcome'[e].value, CacheTtlMs, now)
                           ELSE cache[calls[e].key]

\* C24: a streaming request whose stream completes resolves to a Success with
\* the status of the response, whatever it is, and no data, and a caching
\* client stores that Success under the request's key with the usual TTL; a
\* request that does not stream and whose body decodes resolves to a Result
\* with the status of the response that is ok exactly when the status is in
\* 200..299.
C24_StreamSuccessAnyStatus == []C24_State /\ [][C24_Step]_vars

\* a streaming request answered 404 resolved to a Success, which is cached
C24_Witness ==
  \E e \in CallIds :
    /\ StreamCompleted(e) /\ response[e].status = 404
    /\ calls[e].state = "resolved" /\ calls[e].result.ok /\ calls[e].result.status = 404
    /\ cfg.cache /\ cache[calls[e].key].present /\ cache[calls[e].key].value = calls[e].result

\* the entry has no expiry
Unexpiring(entry) == entry.present /\ entry.expiresAt = 0

C25_State ==
  /\ \A k \in DOMAIN cache : cache[k].present =>
       /\ (cache[k].expiresAt = 0 <=> cacheTtlMs = 0)
       /\ cache[k].value.ok
  /\ \A c \in CallIds : calls[c].via = "cache" =>
       /\ calls[c].state = "resolved" /\ calls[c].result.ok /\ fetches[c] = <<>>

C25_Step ==
  /\ \A e \in CallIds :
       (~Finished(e) /\ Finished(e)' /\ outcome'[e].state = "fulfilled" /\ outcome'[e].value.ok) =>
         /\ cache'[calls[e].key].present
         /\ cache'[calls[e].key].value = outcome'[e].value
         /\ cache'[calls[e].key].expiresAt = IF cacheTtlMs = 0 THEN 0 ELSE now + cacheTtlMs
  /\ \A k \in DOMAIN cache :
       /\ Unexpiring(cache[k]) => cache'[k] = cache[k]
       /\ \A c \in CallIds : (Issued(c) /\ calls'[c].key = k /\ cache[k].present) =>
            IF cache[k].expiresAt = 0 \/ now < cache[k].expiresAt
              THEN /\ calls'[c].via = "cache" /\ calls'[c].result = cache[k].value
                   /\ cache'[k] = cache[k] /\ fetches' = fetches /\ pc' = pc
              ELSE /\ calls'[c].via # "cache" /\ ~cache'[k].present

\* C25: a Success is cached with expiresAt = now + cacheTtlMs, or with no
\* expiry when cacheTtlMs is 0.  An entry without expiry stays as it is and
\* every later request() for its key is served from it, at any time; an entry
\* with an expiry is served while now < expiresAt and is a miss (and removed)
\* at a lookup with now >= expiresAt, the instant expiresAt included.
C25_ZeroTtlNeverExpires == []C25_State /\ [][C25_Step]_vars

\* on a client with cacheTtlMs = 0, a Success cached at time 0 was served one
\* default TTL later
C25_Witness ==
  /\ cacheTtlMs = 0
  /\ \E c, d \in CallIds :
       /\ calls[c].via = "cache" /\ WriterOf(c, d)
       /\ calls[d].doneAt = 0 /\ calls[c].hitAt >= CacheTtlMs
       /\ Unexpiring(cache[calls[c].key])

====
